---- MODULE Spec2Model ----
(***************************************************************************)
(* Co-occurrence network builder of IWAC-spatial-overview                  *)
(* (scripts/build_networks.py), as a state machine.  One run of the script *)
(* goes through its sections in order: Load, Index, Build edges (one step  *)
(* per article of the index), Prune, Build nodes subset, Degree, and the   *)
(* assembly and writing of global.json.                                    *)
(*                                                                         *)
(* Representation.                                                         *)
(*  - A Python str is a TLA+ string where the program only compares it for *)
(*    equality (article ids, type keys, labels), and a sequence of code    *)
(*    points where the program orders it (the entity id part of a node     *)
(*    id).                                                                 *)
(*  - A node id f"{type_key}:{ent_id}" is the pair <<type_key, str(id)>>;  *)
(*    NodeIdStr gives its code points and NodeLess is Python's `<` on the  *)
(*    two strings.                                                         *)
(*  - A dict is a sequence of keys in insertion order plus a function on   *)
(*    the keys (dicts iterate in insertion order).                         *)
(*  - A set of str iterates in an order that depends on the per-process    *)
(*    hash seed: every iteration of a set takes an arbitrary permutation   *)
(*    of it, the same one for every iteration of the same unmodified set.  *)
(***************************************************************************)
EXTENDS Integers, Sequences, FiniteSets, TLC

VARIABLES
    type_pairs,          \* the TYPE_PAIRS list the run is configured with
    weight_min,          \* the WEIGHT_MIN threshold the run is configured with
    files,               \* entities/*.json: type key -> Missing or Present(records)
    pc,                  \* section of the script about to run
    loaded,              \* persons, organizations, events, subjects, locations
    article_to_entities, \* [keys: articles in insertion order, buckets: aid -> type -> set]
    node_info,           \* node id -> [id, type, label, count], and degree once computed
    edge_acc,            \* edge records in insertion order of their (source, target) key
    next_article,        \* position of the outer loop in article_to_entities.items()
    edges,               \* edges surviving the prune
    used_ids,            \* endpoints of surviving edges
    nodes,               \* node records, in iteration order of used_ids
    degree,              \* node id -> degree
    output,              \* <<the document handed to json.dumps>>, NoOutput before it exists
    written,             \* <<content of networks/global.json>>, NoFile before the write
    run,                 \* 1 for the first run over the inputs, 2 for a rerun
    first_output,        \* output of the first run, kept to compare a rerun with
    \* preprocess_all.py and preprocess_entities.py
    script,              \* the script that runs
    args_steps,          \* args.steps, <<>> when --steps is absent or empty
    data_dir,            \* articles.json and index.json: "missing", "readable", "unreadable"
    env,                 \* what the steps depend on besides the data directory
    main_pc,             \* step main() is about to decide on
    files_written,       \* files this run has written so far
    calls,               \* the step functions main() has called, in order
    error,               \* kind of the exception that ended the run, "" if none
    index_rows,          \* the rows of index.json
    result               \* counts of the add-countries pass, <<>> before it

net_vars == <<type_pairs, weight_min, files, pc, loaded, article_to_entities, node_info,
              edge_acc, next_article, edges, used_ids, nodes, degree, output, written,
              run, first_output>>

geo_vars == <<index_rows, result>>

pre_vars == <<script, args_steps, data_dir, env, main_pc, files_written, calls, error,
              geo_vars>>

vars == <<net_vars, pre_vars>>

-----------------------------------------------------------------------------
(* Configuration *)

Types == {"person", "organization", "event", "subject", "location"}

SupportedTypes == <<"person", "organization", "event", "subject", "location">>

\* The shipped rules with the reverse of the first rule added.
TypePairsWithReverse ==
    << <<"person", "organization">>,
       <<"event", "location">>,
       <<"person", "event">>,
       <<"organization", "event">>,
       <<"subject", "event">>,
       <<"organization", "person">> >>

TYPE_PAIRS ==
    << <<"person", "organization">>,
       <<"event", "location">>,
       <<"person", "event">>,
       <<"organization", "event">>,
       <<"subject", "event">> >>

WEIGHT_MIN == 2

\* A file of the entities directory: absent, present with its parsed content,
\* or present and unreadable (read_text or json.loads raises on it).
Missing == [exists |-> FALSE, readable |-> FALSE, content |-> <<>>]
Present(content) == [exists |-> TRUE, readable |-> TRUE, content |-> content]
Unreadable == [exists |-> TRUE, readable |-> FALSE, content |-> <<>>]

\* An optional document: the empty sequence before it exists, <<doc>> after.
NoFile == <<>>
NoOutput == <<>>

-----------------------------------------------------------------------------
(* Strings that the program orders *)

Digit(d) == 48 + d

RECURSIVE Str(_)
Str(n) == IF n < 10 THEN <<Digit(n)>> ELSE Str(n \div 10) \o <<Digit(n % 10)>>

TypeChars(t) ==
    CASE t = "person"       -> <<112, 101, 114, 115, 111, 110>>
      [] t = "organization" -> <<111, 114, 103, 97, 110, 105, 122, 97, 116, 105, 111, 110>>
      [] t = "event"        -> <<101, 118, 101, 110, 116>>
      [] t = "subject"      -> <<115, 117, 98, 106, 101, 99, 116>>
      [] t = "location"     -> <<108, 111, 99, 97, 116, 105, 111, 110>>

Colon == <<58>>

\* Python's a < b on two str: the first differing code point decides, a proper
\* prefix is smaller.
StrLess(a, b) ==
    \E i \in 1..Len(b) :
        /\ \A j \in 1..(i - 1) : j <= Len(a) /\ a[j] = b[j]
        /\ (i > Len(a) \/ a[i] < b[i])

\* The node id without the type tag of its entity (every id tagged alike).
NodeIdUntyped(type_key, ent_id) == <<"person", ent_id>>

NodeId(type_key, ent_id) == <<type_key, ent_id>>

NodeIdStr(n) == TypeChars(n[1]) \o Colon \o n[2]

NodeLess(n1, n2) == StrLess(NodeIdStr(n1), NodeIdStr(n2))

-----------------------------------------------------------------------------
(* Helpers on sequences and sets *)

Range(s) == {s[i] : i \in 1..Len(s)}

Perms(S) == {f \in [1..Cardinality(S) -> S] : \A i, j \in 1..Cardinality(S) : f[i] = f[j] => i = j}

-----------------------------------------------------------------------------
(* load_entities *)

\* if not p.exists(): return []; otherwise the parsed content.
load_entities(fs, file) == IF ~fs[file].exists THEN <<>> ELSE fs[file].content

-----------------------------------------------------------------------------
(* build_article_index *)

EmptyIndex == [keys |-> <<>>, buckets |-> <<>>]

\* The insertion with the bucket replaced instead of added to.
AddToBucketOverwrite(index, aid, type_key, node_id) ==
    IF aid \in Range(index.keys)
    THEN [index EXCEPT !.buckets[aid][type_key] = {node_id}]
    ELSE [keys |-> Append(index.keys, aid),
          buckets |-> (aid :> [t \in Types |-> IF t = type_key THEN {node_id} ELSE {}])
                      @@ index.buckets]

\* article_to_entities.setdefault(aid, {}).setdefault(type_key, set()).add(node_id);
\* a type key that is not in the inner dict is the empty set here, which is what
\* the reader of the index (`not a`) cannot tell apart from a missing key.
AddToBucket(index, aid, type_key, node_id) ==
    IF aid \in Range(index.keys)
    THEN [index EXCEPT !.buckets[aid][type_key] = @ \cup {node_id}]
    ELSE [keys |-> Append(index.keys, aid),
          buckets |-> (aid :> [t \in Types |-> IF t = type_key THEN {node_id} ELSE {}])
                      @@ index.buckets]

RECURSIVE AddArticles(_, _, _, _)
AddArticles(index, aids, type_key, node_id) ==
    IF aids = <<>> THEN index
    ELSE AddArticles(AddToBucket(index, Head(aids), type_key, node_id),
                     Tail(aids), type_key, node_id)

\* An entity is a JSON object: a record of the keys that carry a value, and
\* under "nulls" (when present) the set of keys whose value is null.
IsNull(ent, key) == "nulls" \in DOMAIN ent /\ key \in ent.nulls

\* str(None)
NoneStr == <<78, 111, 110, 101>>

\* str(ent.get('id'))
EntId(ent) == IF "id" \in DOMAIN ent THEN Str(ent.id) ELSE NoneStr

\* ent.get('name', ''); a null name stays None, "null" here.
Label(ent) ==
    IF "name" \in DOMAIN ent THEN ent.name
    ELSE IF IsNull(ent, "name") THEN "null" ELSE ""

\* A missing or null list read as the one id str(None).
RelatedArticleIdsStringified(ent) ==
    IF "relatedArticleIds" \in DOMAIN ent THEN ent.relatedArticleIds ELSE <<"None">>

\* ent.get('relatedArticleIds', []) or []
RelatedArticleIds(ent) ==
    IF "relatedArticleIds" \in DOMAIN ent THEN ent.relatedArticleIds ELSE <<>>

\* int(ent.get('articleCount', len(ent.get('relatedArticleIds', []) or [])) or 0)
EntityCount(ent) ==
    IF "articleCount" \in DOMAIN ent THEN ent.articleCount
    ELSE IF IsNull(ent, "articleCount") THEN 0
    ELSE Len(RelatedArticleIds(ent))

NodeRecord(ent, type_key) ==
    [id |-> NodeId(type_key, EntId(ent)),
     type |-> type_key,
     label |-> Label(ent),
     count |-> EntityCount(ent)]

\* The call with node_info keeping the first record of a node id.
RECURSIVE build_article_index_keep_first(_, _, _)
build_article_index_keep_first(entities, type_key, st) ==
    IF entities = <<>> THEN st
    ELSE LET ent == Head(entities)
             node_id == NodeId(type_key, EntId(ent))
         IN build_article_index_keep_first(
                Tail(entities), type_key,
                [index |-> AddArticles(st.index, RelatedArticleIds(ent), type_key, node_id),
                 info |-> st.info @@ (node_id :> NodeRecord(ent, type_key))])

\* st = [index, info]: one call of build_article_index over `entities`.
RECURSIVE build_article_index(_, _, _)
build_article_index(entities, type_key, st) ==
    IF entities = <<>> THEN st
    ELSE LET ent == Head(entities)
             node_id == NodeId(type_key, EntId(ent))
         IN build_article_index(
                Tail(entities), type_key,
                [index |-> AddArticles(st.index, RelatedArticleIds(ent), type_key, node_id),
                 info |-> (node_id :> NodeRecord(ent, type_key)) @@ st.info])

\* Lines 83-90: the five calls, in the order of the script.
IndexAll(ld) ==
    build_article_index(ld["location"], "location",
      build_article_index(ld["subject"], "subject",
        build_article_index(ld["event"], "event",
          build_article_index(ld["organization"], "organization",
            build_article_index(ld["person"], "person",
              [index |-> EmptyIndex, info |-> <<>>])))))

-----------------------------------------------------------------------------
(* Build edges *)

\* The key without the ordering of line 107.
EdgeKeyAsVisited(n1, n2) == <<n1, n2>>

\* s, t = (n1, n2) if n1 < n2 else (n2, n1)
EdgeKey(n1, n2) == IF NodeLess(n1, n2) THEN <<n1, n2>> ELSE <<n2, n1>>

\* Position of the record of `key` in the accumulator, 0 when edge_acc.get(key) is None.
KeyIndex(acc, key) ==
    IF \E i \in 1..Len(acc) : <<acc[i].source, acc[i].target>> = key
    THEN CHOOSE i \in 1..Len(acc) : <<acc[i].source, acc[i].target>> = key
    ELSE 0

\* A visit that counts a pair once however many articles it is seen in.
VisitWeightOnce(acc, aid, t1, t2, n1, n2) ==
    LET key == EdgeKey(n1, n2)
        i == KeyIndex(acc, key)
    IN IF i = 0
       THEN Append(acc, [source |-> key[1],
                         target |-> key[2],
                         type |-> t1 \o "-" \o t2,
                         weight |-> 1,
                         articleIds |-> <<aid>>])
       ELSE [acc EXCEPT ![i] =
                [@ EXCEPT !.articleIds = IF @ = <<>> \/ @[Len(@)] # aid
                                         THEN Append(@, aid) ELSE @]]

\* A visit that labels a new edge with the types in the reverse order.
VisitReversedLabel(acc, aid, t1, t2, n1, n2) ==
    LET key == EdgeKey(n1, n2)
        i == KeyIndex(acc, key)
    IN IF i = 0
       THEN Append(acc, [source |-> key[1],
                         target |-> key[2],
                         type |-> t2 \o "-" \o t1,
                         weight |-> 1,
                         articleIds |-> <<aid>>])
       ELSE [acc EXCEPT ![i] =
                [@ EXCEPT !.weight = @ + 1,
                          !.articleIds = IF @ = <<>> \/ @[Len(@)] # aid
                                         THEN Append(@, aid) ELSE @]]

\* A visit that labels the edge with the rule of the visit, every time.
VisitRelabel(acc, aid, t1, t2, n1, n2) ==
    LET key == EdgeKey(n1, n2)
        i == KeyIndex(acc, key)
    IN IF i = 0
       THEN Append(acc, [source |-> key[1],
                         target |-> key[2],
                         type |-> t1 \o "-" \o t2,
                         weight |-> 1,
                         articleIds |-> <<aid>>])
       ELSE [acc EXCEPT ![i] =
                [@ EXCEPT !.type = t1 \o "-" \o t2,
                          !.weight = @ + 1,
                          !.articleIds = IF @ = <<>> \/ @[Len(@)] # aid
                                         THEN Append(@, aid) ELSE @]]

\* A visit that puts the article id in front of the list.
VisitPrepend(acc, aid, t1, t2, n1, n2) ==
    LET key == EdgeKey(n1, n2)
        i == KeyIndex(acc, key)
    IN IF i = 0
       THEN Append(acc, [source |-> key[1],
                         target |-> key[2],
                         type |-> t1 \o "-" \o t2,
                         weight |-> 1,
                         articleIds |-> <<aid>>])
       ELSE [acc EXCEPT ![i] =
                [@ EXCEPT !.weight = @ + 1,
                          !.articleIds = IF @ = <<>> \/ @[1] # aid
                                         THEN <<aid>> \o @ ELSE @]]

\* A visit without the check of the last appended article id.
VisitUnguarded(acc, aid, t1, t2, n1, n2) ==
    LET key == EdgeKey(n1, n2)
        i == KeyIndex(acc, key)
    IN IF i = 0
       THEN Append(acc, [source |-> key[1],
                         target |-> key[2],
                         type |-> t1 \o "-" \o t2,
                         weight |-> 1,
                         articleIds |-> <<aid>>])
       ELSE [acc EXCEPT ![i] =
                [@ EXCEPT !.weight = @ + 1,
                          !.articleIds = Append(@, aid)]]

\* Lines 107-122: one visit of the pair (n1, n2) under the rule (t1, t2) for article aid.
Visit(acc, aid, t1, t2, n1, n2) ==
    LET key == EdgeKey(n1, n2)
        i == KeyIndex(acc, key)
    IN IF i = 0
       THEN Append(acc, [source |-> key[1],
                         target |-> key[2],
                         type |-> t1 \o "-" \o t2,
                         weight |-> 1,
                         articleIds |-> <<aid>>])
       ELSE [acc EXCEPT ![i] =
                [@ EXCEPT !.weight = @ + 1,
                          !.articleIds = IF @ = <<>> \/ @[Len(@)] # aid
                                         THEN Append(@, aid) ELSE @]]

\* for n1 in a: for n2 in b, with a and b in their iteration orders.
PairsOf(a, b) ==
    [k \in 1..(Len(a) * Len(b)) |-> <<a[((k - 1) \div Len(b)) + 1], b[((k - 1) % Len(b)) + 1]>>]

RECURSIVE VisitAll(_, _, _, _, _)
VisitAll(acc, aid, t1, t2, pairs) ==
    IF pairs = <<>> THEN acc
    ELSE VisitAll(Visit(acc, aid, t1, t2, Head(pairs)[1], Head(pairs)[2]),
                  aid, t1, t2, Tail(pairs))

\* Lines 98-122: the rules in configured order for one article; order[t] is the
\* iteration order of by_type[t] (the empty sequence when the bucket is missing,
\* which skips the rule as `if not a or not b: continue` does).
RECURSIVE AccumulateRules(_, _, _, _)
AccumulateRules(acc, aid, order, rules) ==
    IF rules = <<>> THEN acc
    ELSE LET t1 == Head(rules)[1]
             t2 == Head(rules)[2]
         IN AccumulateRules(VisitAll(acc, aid, t1, t2, PairsOf(order[t1], order[t2])),
                            aid, order, Tail(rules))

\* The iteration orders the buckets of one article can have.
BucketOrders(by_type) ==
    {[t \in Types |-> CASE t = "person" -> p [] t = "organization" -> o [] t = "event" -> e
                         [] t = "subject" -> s [] t = "location" -> l] :
        p \in Perms(by_type["person"]), o \in Perms(by_type["organization"]),
        e \in Perms(by_type["event"]), s \in Perms(by_type["subject"]),
        l \in Perms(by_type["location"])}

-----------------------------------------------------------------------------
(* Prune, nodes, degree, output *)

\* The filter with > for >=, and with == for >=.
KeepAbove(e, wmin) == e.weight > wmin

KeepExact(e, wmin) == e.weight = wmin

\* edges = [e for e in edge_acc.values() if e['weight'] >= WEIGHT_MIN]
Keep(e, wmin) == e.weight >= wmin

Prune(acc, wmin) == SelectSeq(acc, LAMBDA e : Keep(e, wmin))

\* The used ids without line 131.
UsedIdsSources(es) == {es[i].source : i \in 1..Len(es)}

\* Every indexed entity taken as used.
UsedIdsIndexed(es) == DOMAIN node_info

\* Lines 128-131
UsedIds(es) == {es[i].source : i \in 1..Len(es)} \cup {es[i].target : i \in 1..Len(es)}

\* The degree counted over the accumulator instead of the surviving edges.
DegreeUnpruned(ids, es) ==
    [nid \in ids |-> Cardinality({i \in 1..Len(edge_acc) : edge_acc[i].source = nid})
                     + Cardinality({i \in 1..Len(edge_acc) : edge_acc[i].target = nid})]

\* Lines 136-139: one for each end of each surviving edge.
Degree(ids, es) ==
    [nid \in ids |-> Cardinality({i \in 1..Len(es) : es[i].source = nid})
                     + Cardinality({i \in 1..Len(es) : es[i].target = nid})]

\* n['degree'] = degree.get(n['id'], 0)
WithDegree(n, deg) ==
    [id |-> n.id, type |-> n.type, label |-> n.label, count |-> n.count,
     degree |-> IF n.id \in DOMAIN deg THEN deg[n.id] ELSE 0]

\* The sort without reverse=True.
SortKeyAscending(x, y) == x.degree <= y.degree

\* sorted(nodes, key=lambda x: x['degree'], reverse=True): a stable sort, so nodes
\* of equal degree keep the order they have in `nodes`.
SortKeyBefore(x, y) == x.degree >= y.degree

InsertNode(sorted, x) ==
    LET k == Cardinality({i \in 1..Len(sorted) : SortKeyBefore(sorted[i], x)})
    IN SubSeq(sorted, 1, k) \o <<x>> \o SubSeq(sorted, k + 1, Len(sorted))

RECURSIVE SortNodes(_)
SortNodes(ns) ==
    IF ns = <<>> THEN <<>>
    ELSE InsertNode(SortNodes(SubSeq(ns, 1, Len(ns) - 1)), ns[Len(ns)])

\* The output with totalNodes counting the indexed entities.
OutputCountsIndexed(ns, es, wmin, pairs) ==
    [nodes |-> SortNodes(ns),
     edges |-> es,
     meta |-> [totalNodes |-> Cardinality(DOMAIN node_info),
               totalEdges |-> Len(es),
               supportedTypes |-> SupportedTypes,
               weightMin |-> wmin,
               typePairs |-> pairs]]

\* The output with totalEdges counting the accumulated edges.
OutputCountsAccumulated(ns, es, wmin, pairs) ==
    [nodes |-> SortNodes(ns),
     edges |-> es,
     meta |-> [totalNodes |-> Len(ns),
               totalEdges |-> Len(edge_acc),
               supportedTypes |-> SupportedTypes,
               weightMin |-> wmin,
               typePairs |-> pairs]]

\* Lines 143-154, without meta.generatedAt (the clock).
Output(ns, es, wmin, pairs) ==
    [nodes |-> SortNodes(ns),
     edges |-> es,
     meta |-> [totalNodes |-> Len(ns),
               totalEdges |-> Len(es),
               supportedTypes |-> SupportedTypes,
               weightMin |-> wmin,
               typePairs |-> pairs]]

-----------------------------------------------------------------------------
(* preprocess_all.py main() and preprocess_entities.py main() *)

StepNames == {"fetch", "add-countries", "entities"}

\* selected_steps = args.steps or ["fetch", "add-countries", "entities"]
SelectedSteps(steps) ==
    IF steps = <<>> THEN <<"fetch", "add-countries", "entities">> ELSE steps

Selected(step) == step \in Range(SelectedSteps(args_steps))

EntityFilesAll ==
    {"entities/persons.json", "entities/organizations.json", "entities/events.json",
     "entities/subjects.json", "entities/locations.json"}

\* preprocess_entities.py has no 'Lieux' entry in entity_types.
EntityFilesScript == EntityFilesAll \ {"entities/locations.json"}

\* A coordinate string is modelled by the parts that cleaned.split(",") gives,
\* each a number (its value) or a text float() rejects; the blank string has
\* no parts. Brackets and surrounding spaces are removed by the code and are
\* not represented.
Num(v) == [num |-> TRUE, val |-> v]

Word == [num |-> FALSE, val |-> 0]

Blank == <<>>

\* parse_coordinates: <<>> for None, <<lat, lng>> for a pair.
parse_coordinates(coord_str) ==
    IF coord_str = Blank THEN <<>>
    ELSE IF Len(coord_str) >= 2
         THEN IF ~coord_str[1].num \/ ~coord_str[2].num THEN <<>>
              ELSE LET lat == coord_str[1].val
                       lng == coord_str[2].val
                   IN IF -90 <= lat /\ lat <= 90 /\ -180 <= lng /\ lng <= 180
                      THEN <<lat, lng>> ELSE <<>>
         ELSE <<>>

\* The countries of world_countries.geojson, in file order; a geometry is the
\* set of points Point(lng, lat) it contains.
WorldCountries ==
    << [name |-> "Togo", geometry |-> {<<1, 6>>}],
       [name |-> "Benin", geometry |-> {<<1, 6>>, <<2, 6>>}] >>

\* find_country_for_coordinates: the first country containing the point,
\* "" standing for None (which `country or ''` turns into '').
RECURSIVE find_country_for_coordinates(_, _, _)
find_country_for_coordinates(lat, lng, countries) ==
    IF countries = <<>> THEN ""
    ELSE IF <<lng, lat>> \in Head(countries).geometry THEN Head(countries).name
    ELSE find_country_for_coordinates(lat, lng, Tail(countries))

\* row.get("Type") != "Lieux"
IsLocation(row) == "Type" \in DOMAIN row /\ row.Type = "Lieux"

\* row.get("Coordonnées", "") or ""; the key is written Coordonnees here.
CoordStr(row) == IF "Coordonnees" \in DOMAIN row THEN row.Coordonnees ELSE Blank

\* row["Country"] = value: the key gets the value whether it was absent, a
\* string or null; a row left with no null key has no "nulls" field.
SetCountry(row, value) ==
    LET still_null == IF "nulls" \in DOMAIN row THEN row.nulls \ {"Country"} ELSE {}
        keys == ((DOMAIN row \ {"nulls"}) \cup {"Country"})
                    \cup (IF still_null = {} THEN {} ELSE {"nulls"})
    IN [k \in keys |-> IF k = "Country" THEN value
                       ELSE IF k = "nulls" THEN still_null
                       ELSE row[k]]

\* The loop body with the Type test left out.
UpdateRowAnyType(row, countries) ==
    LET coords == parse_coordinates(CoordStr(row))
    IN IF coords # <<>>
       THEN SetCountry(row, find_country_for_coordinates(coords[1], coords[2], countries))
       ELSE SetCountry(row, "")

\* Lines 367-378 of preprocess_all.py, lines 104-123 of add_countries.py: the
\* row after one iteration of the loop.
UpdateRow(row, countries) ==
    IF ~IsLocation(row) THEN row
    ELSE LET coords == parse_coordinates(CoordStr(row))
         IN IF coords # <<>>
            THEN SetCountry(row, find_country_for_coordinates(coords[1], coords[2], countries))
            ELSE SetCountry(row, "")

\* The loop of step_add_countries and of process_index_locations over the rows.
RECURSIVE step_add_countries(_, _)
step_add_countries(rows, countries) ==
    IF rows = <<>> THEN [rows |-> <<>>, processed |-> 0, matched |-> 0, skipped |-> 0]
    ELSE LET row == rows[Len(rows)]
             new == UpdateRow(row, countries)
             rest == step_add_countries(SubSeq(rows, 1, Len(rows) - 1), countries)
         IN [rows |-> Append(rest.rows, new),
             processed |-> rest.processed + (IF IsLocation(row) THEN 1 ELSE 0),
             matched |-> rest.matched + (IF IsLocation(row) /\ new.Country # "" THEN 1 ELSE 0),
             skipped |-> rest.skipped + (IF IsLocation(row) THEN 0 ELSE 1)]

\* get_first_non_empty: the first of `keys` the row has with a value that is
\* not None, "" when there is none (the function then returns None). The
\* columns of the dataset are scalars, so no value is an empty container.
RECURSIVE get_first_non_empty(_, _)
get_first_non_empty(row, keys) ==
    IF keys = <<>> THEN ""
    ELSE IF Head(keys) \in DOMAIN row /\ ~IsNull(row, Head(keys)) THEN Head(keys)
    ELSE get_first_non_empty(row, Tail(keys))

\* transform_index_row: the four keys "o:id", Titre, Type and Coordonnées.
\* "o:id" is int(oid), or null when the row gives none or int() raises; the
\* other three are str() of the value found, which is "None" when none is
\* found (for the coordinates: a text parse_coordinates cannot read).
transform_index_row(row) ==
    LET ko == get_first_non_empty(row, <<"o:id", "o_id", "id">>)
        kt == get_first_non_empty(row, <<"Titre", "title", "dcterms:title">>)
        ky == get_first_non_empty(row, <<"Type", "type">>)
        kc == get_first_non_empty(row, <<"Coordonnees", "coordinates", "coordonnees",
                                         "curation:coordinates">>)
        oid_num == ko # "" /\ row[ko].num
    IN [k \in {"Titre", "Type", "Coordonnees"}
                  \cup (IF oid_num THEN {"o:id"} ELSE {"nulls"}) |->
           CASE k = "o:id" -> row[ko].val
             [] k = "nulls" -> {"o:id"}
             [] k = "Titre" -> IF kt = "" THEN "None" ELSE row[kt]
             [] k = "Type" -> IF ky = "" THEN "None" ELSE row[ky]
             [] k = "Coordonnees" -> IF kc = "" THEN <<Word>> ELSE row[kc]]

\* Index subsets the dataset can hold. An o:id is Num(v), a number or a text
\* int() reads as v, or Word, a text int() raises on.
DatasetPool ==
    { <<>>,
      << ("o:id" :> Num(1)) @@ [Titre |-> "Lome", Type |-> "Lieux",
                                Coordonnees |-> <<Num(6), Num(1)>>],
         ("o:id" :> Num(2)) @@ [Titre |-> "Imam", Type |-> "Personnes"] >>,
      << [Titre |-> "Lome", Type |-> "Lieux", Coordonnees |-> <<Num(6), Num(1)>>],
         [Titre |-> "Imam", Type |-> "Personnes"] >>,
      << [id |-> Num(3), title |-> "Kara", type |-> "Lieux",
          coordinates |-> <<Num(6), Num(2)>>] >>,
      << ("o:id" :> Word) @@ [Type |-> "Lieux", Coordonnees |-> Blank,
                              nulls |-> {"Titre"}] >> }

\* index_rows = [transform_index_row(r) for r in index_ds]
DatasetIndexRows(index_ds) == [i \in 1..Len(index_ds) |-> transform_index_row(index_ds[i])]

\* No preprocessing script runs.
PreIdle ==
    /\ script = "build_networks"
    /\ args_steps = <<>>
    /\ data_dir = [articles |-> "missing", index |-> "missing"]
    /\ env = [dataset |-> TRUE, shapely |-> TRUE, world_geojson |-> TRUE]
    /\ main_pc = "idle"
    /\ files_written = {}
    /\ calls = <<>>
    /\ error = ""
    /\ index_rows = <<>>
    /\ result = <<>>

\* No run of build_networks.py.
NetIdle ==
    /\ type_pairs = TYPE_PAIRS
    /\ weight_min = WEIGHT_MIN
    /\ files = [t \in Types |-> Missing]
    /\ pc = "idle"
    /\ loaded = <<>>
    /\ article_to_entities = EmptyIndex
    /\ node_info = <<>>
    /\ edge_acc = <<>>
    /\ next_article = 1
    /\ edges = <<>>
    /\ used_ids = {}
    /\ nodes = <<>>
    /\ degree = <<>>
    /\ output = NoOutput
    /\ written = NoFile
    /\ run = 1
    /\ first_output = NoOutput

\* step_fetch: both subsets load, articles.json and index.json are written.
Fetch ==
    /\ script = "preprocess_all" /\ main_pc = "fetch"
    /\ Selected("fetch")
    /\ env.dataset
    /\ data_dir' = [articles |-> "readable", index |-> "readable"]
    /\ files_written' = files_written \cup {"articles.json", "index.json"}
    /\ main_pc' = "add-countries"
    /\ calls' = Append(calls, "fetch")
    /\ \E index_ds \in DatasetPool : index_rows' = DatasetIndexRows(index_ds)
    /\ UNCHANGED <<net_vars, result, script, args_steps, env, error>>

\* The failure of step_fetch recorded, and main going on to the next step.
FetchFailsAndContinues ==
    /\ script = "preprocess_all" /\ main_pc = "fetch"
    /\ Selected("fetch")
    /\ ~env.dataset
    /\ main_pc' = "add-countries"
    /\ error' = "Dataset"
    /\ calls' = Append(calls, "fetch")
    /\ UNCHANGED <<net_vars, geo_vars, script, args_steps, data_dir, env, files_written>>

\* step_fetch: load_subset raises before anything is written.
FetchFails ==
    /\ script = "preprocess_all" /\ main_pc = "fetch"
    /\ Selected("fetch")
    /\ ~env.dataset
    /\ main_pc' = "failed"
    /\ error' = "Dataset"
    /\ calls' = Append(calls, "fetch")
    /\ UNCHANGED <<net_vars, geo_vars, script, args_steps, data_dir, env, files_written>>

SkipFetch ==
    /\ script = "preprocess_all" /\ main_pc = "fetch"
    /\ ~Selected("fetch")
    /\ main_pc' = "add-countries"
    /\ UNCHANGED <<net_vars, geo_vars, calls, script, args_steps, data_dir, env, files_written, error>>

\* The exception of main() and step_add_countries, "" when the step goes through:
\* index.json missing, shapely missing, the world file missing, index.json not JSON.
AddCountriesError ==
    IF data_dir.index = "missing" THEN "MissingSource"
    ELSE IF ~env.shapely THEN "Shapely"
    ELSE IF ~env.world_geojson THEN "WorldGeojson"
    ELSE IF data_dir.index = "unreadable" THEN "MissingSource"
    ELSE ""

\* step_add_countries: index.json is read, backed up (best effort) and rewritten.
AddCountries ==
    /\ script = "preprocess_all" /\ main_pc = "add-countries"
    /\ Selected("add-countries")
    /\ AddCountriesError = ""
    /\ \E backup \in SUBSET {"index.json.backup"} :
           files_written' = files_written \cup backup \cup {"index.json"}
    /\ main_pc' = "entities"
    /\ calls' = Append(calls, "add-countries")
    /\ LET res == step_add_countries(index_rows, WorldCountries)
       IN /\ index_rows' = res.rows
          /\ result' = <<[processed |-> res.processed, matched |-> res.matched,
                         skipped_non_locations |-> res.skipped]>>
    /\ UNCHANGED <<net_vars, script, args_steps, data_dir, env, error>>

AddCountriesFails ==
    /\ script = "preprocess_all" /\ main_pc = "add-countries"
    /\ Selected("add-countries")
    /\ AddCountriesError # ""
    /\ main_pc' = "failed"
    /\ error' = AddCountriesError
    /\ calls' = IF data_dir.index = "missing" THEN calls ELSE Append(calls, "add-countries")
    /\ UNCHANGED <<net_vars, geo_vars, script, args_steps, data_dir, env, files_written>>

SkipAddCountries ==
    /\ script = "preprocess_all" /\ main_pc = "add-countries"
    /\ ~Selected("add-countries")
    /\ main_pc' = "entities"
    /\ UNCHANGED <<net_vars, geo_vars, calls, script, args_steps, data_dir, env, files_written, error>>

SourcesReadable == data_dir.articles = "readable" /\ data_dir.index = "readable"

\* step_entities: both sources are read, then the five entity files are written.
Entities ==
    /\ script = "preprocess_all" /\ main_pc = "entities"
    /\ Selected("entities")
    /\ SourcesReadable
    /\ files_written' = files_written \cup EntityFilesAll
    /\ main_pc' = "done"
    /\ calls' = Append(calls, "entities")
    /\ UNCHANGED <<net_vars, geo_vars, script, args_steps, data_dir, env, error>>

\* step_entities: open or json.load raises on articles.json or index.json.
EntitiesFails ==
    /\ script = "preprocess_all" /\ main_pc = "entities"
    /\ Selected("entities")
    /\ ~SourcesReadable
    /\ main_pc' = "failed"
    /\ error' = "MissingSource"
    /\ calls' = Append(calls, "entities")
    /\ UNCHANGED <<net_vars, geo_vars, script, args_steps, data_dir, env, files_written>>

SkipEntities ==
    /\ script = "preprocess_all" /\ main_pc = "entities"
    /\ ~Selected("entities")
    /\ main_pc' = "done"
    /\ UNCHANGED <<net_vars, geo_vars, calls, script, args_steps, data_dir, env, files_written, error>>

\* preprocess_entities.py main(): load_data, then save_entity_files.
PreprocessEntities ==
    /\ script = "preprocess_entities" /\ main_pc = "load_data"
    /\ SourcesReadable
    /\ files_written' = files_written \cup EntityFilesScript
    /\ main_pc' = "done"
    /\ UNCHANGED <<net_vars, geo_vars, calls, script, args_steps, data_dir, env, error>>

\* preprocess_entities.py main(): load_data raises.
PreprocessEntitiesFails ==
    /\ script = "preprocess_entities" /\ main_pc = "load_data"
    /\ ~SourcesReadable
    /\ main_pc' = "failed"
    /\ error' = "MissingSource"
    /\ UNCHANGED <<net_vars, geo_vars, calls, script, args_steps, data_dir, env, files_written>>

\* process_index_locations of add_countries.py: the same loop, with its own counters.
RECURSIVE process_index_locations(_, _)
process_index_locations(locations, countries) ==
    IF locations = <<>> THEN [rows |-> <<>>, processed |-> 0, matched |-> 0, skipped |-> 0]
    ELSE LET location == locations[Len(locations)]
             new == UpdateRow(location, countries)
             rest == process_index_locations(SubSeq(locations, 1, Len(locations) - 1), countries)
         IN [rows |-> Append(rest.rows, new),
             processed |-> rest.processed + (IF IsLocation(location) THEN 1 ELSE 0),
             matched |-> rest.matched
                         + (IF IsLocation(location) /\ new.Country # "" THEN 1 ELSE 0),
             skipped |-> rest.skipped + (IF IsLocation(location) THEN 0 ELSE 1)]

\* add_countries.py main(): both files exist; the rows are processed, the
\* backup is written, index.json is rewritten.
AddCountriesMain ==
    /\ script = "add_countries" /\ main_pc = "main"
    /\ data_dir.index = "readable"
    /\ env.world_geojson
    /\ LET res == process_index_locations(index_rows, WorldCountries)
       IN /\ index_rows' = res.rows
          /\ result' = <<[processed |-> res.processed, matched |-> res.matched,
                         skipped_non_locations |-> res.skipped]>>
    /\ files_written' = files_written \cup {"index.json.backup", "index.json"}
    /\ main_pc' = "done"
    /\ UNCHANGED <<net_vars, script, args_steps, data_dir, env, calls, error>>

\* add_countries.py main(): index.json or the world file is not there; the
\* script prints the error and returns.
AddCountriesMainReturns ==
    /\ script = "add_countries" /\ main_pc = "main"
    /\ data_dir.index = "missing" \/ ~env.world_geojson
    /\ main_pc' = "done"
    /\ UNCHANGED <<net_vars, geo_vars, script, args_steps, data_dir, env, files_written,
                   calls, error>>

\* prepare_json.py main(): both subsets load; articles.json and index.json of
\* the output directory are replaced by the transformed dataset rows, whatever
\* the directory held before.
PrepareJson ==
    /\ script = "prepare_json" /\ main_pc = "main"
    /\ env.dataset
    /\ data_dir' = [articles |-> "readable", index |-> "readable"]
    /\ files_written' = files_written \cup {"articles.json", "index.json"}
    /\ \E index_ds \in DatasetPool : index_rows' = DatasetIndexRows(index_ds)
    /\ main_pc' = "done"
    /\ UNCHANGED <<net_vars, result, script, args_steps, env, calls, error>>

\* prepare_json.py main(): load_subset raises RuntimeError before either file
\* is opened for writing; the directory keeps what it held.
PrepareJsonFails ==
    /\ script = "prepare_json" /\ main_pc = "main"
    /\ ~env.dataset
    /\ main_pc' = "failed"
    /\ error' = "Dataset"
    /\ UNCHANGED <<net_vars, geo_vars, script, args_steps, data_dir, env, files_written,
                   calls>>

MaxSteps == 2

FileStatus == {"missing", "readable", "unreadable"}

InitPreprocess ==
    /\ NetIdle
    /\ data_dir \in [articles : FileStatus, index : FileStatus]
    /\ files_written = {}
    /\ calls = <<>>
    /\ error = ""
    /\ index_rows = <<>>
    /\ result = <<>>
    /\ \/ /\ script = "preprocess_all"
          /\ main_pc = "fetch"
          /\ args_steps \in UNION {[1..n -> StepNames] : n \in 0..MaxSteps}
          /\ env \in [dataset : BOOLEAN, shapely : BOOLEAN, world_geojson : BOOLEAN]
       \/ /\ script = "preprocess_entities"
          /\ main_pc = "load_data"
          /\ args_steps = <<>>
          /\ env = [dataset |-> TRUE, shapely |-> TRUE, world_geojson |-> TRUE]
       \/ /\ script = "prepare_json"
          /\ main_pc = "main"
          /\ args_steps = <<>>
          /\ env \in [dataset : BOOLEAN, shapely : {TRUE}, world_geojson : {TRUE}]

NextPreprocess ==
    \/ Fetch
    \/ FetchFails
    \/ SkipFetch
    \/ AddCountries
    \/ AddCountriesFails
    \/ SkipAddCountries
    \/ Entities
    \/ EntitiesFails
    \/ SkipEntities
    \/ PreprocessEntities
    \/ PreprocessEntitiesFails
    \/ PrepareJson
    \/ PrepareJsonFails

SpecPreprocess == InitPreprocess /\ [][NextPreprocess]_vars

-----------------------------------------------------------------------------
(* The add-countries pass over rows of every kind *)

MaxRows == 2

CoordPool ==
    {Blank, <<Num(6), Num(1)>>, <<Num(6), Num(2)>>, <<Num(0), Num(0)>>,
     <<Num(91), Num(1)>>, <<Num(6), Num(181)>>, <<Num(-6), Num(1)>>, <<Num(6)>>,
     <<Word, Num(1)>>, <<Num(6), Num(1), Num(7)>>}

RowPool ==
    {[Titre |-> "t", Type |-> "Lieux", Coordonnees |-> c] : c \in CoordPool}
    \cup {[Titre |-> "t", Type |-> "Lieux", Coordonnees |-> c, Country |-> "Old"] :
             c \in {Blank, <<Num(6), Num(1)>>}}
    \cup {[Titre |-> "t", Type |-> "Lieux"],
          [Titre |-> "t", Type |-> "Lieux", nulls |-> {"Coordonnees"}],
          [Titre |-> "t", Type |-> "Lieux", Coordonnees |-> <<Num(6), Num(1)>>,
           nulls |-> {"Country"}],
          [Titre |-> "t", Type |-> "Lieux", nulls |-> {"Coordonnees", "Country"}],
          ("o:id" :> 1) @@ [Titre |-> "t", Type |-> "Lieux",
                            Coordonnees |-> <<Num(6), Num(1)>>],
          [Titre |-> "t", Type |-> "Lieux", Coordonnees |-> <<Num(6), Num(2)>>,
           nulls |-> {"o:id"}],
          [Titre |-> "t", Type |-> "Personnes", Coordonnees |-> <<Num(6), Num(1)>>,
           nulls |-> {"Country"}],
          [Titre |-> "t", Type |-> "Personnes", Coordonnees |-> <<Num(6), Num(1)>>],
          [Titre |-> "t", Type |-> "Personnes", Coordonnees |-> <<Num(6), Num(1)>>,
           Country |-> "Old"],
          [Titre |-> "t", Coordonnees |-> <<Num(6), Num(1)>>]}

InitCountries ==
    /\ NetIdle
    /\ files_written = {}
    /\ calls = <<>>
    /\ error = ""
    /\ result = <<>>
    /\ \/ /\ script = "preprocess_all"
          /\ main_pc = "fetch"
          /\ args_steps = <<"add-countries">>
          /\ data_dir = [articles |-> "missing", index |-> "readable"]
          /\ env = [dataset |-> TRUE, shapely |-> TRUE, world_geojson |-> TRUE]
          /\ index_rows \in UNION {[1..n -> RowPool] : n \in 0..MaxRows}
       \/ /\ script = "add_countries"
          /\ main_pc = "main"
          /\ args_steps = <<>>
          /\ env \in [dataset : {TRUE}, shapely : {TRUE}, world_geojson : BOOLEAN]
          /\ \/ /\ data_dir = [articles |-> "missing", index |-> "readable"]
                /\ index_rows \in UNION {[1..n -> RowPool] : n \in 0..MaxRows}
             \/ /\ data_dir = [articles |-> "missing", index |-> "missing"]
                /\ index_rows = <<>>
       \/ /\ script = "prepare_json"
          /\ main_pc = "main"
          /\ args_steps = <<>>
          /\ env \in [dataset : BOOLEAN, shapely : {TRUE}, world_geojson : {TRUE}]
          /\ \/ /\ data_dir \in [articles : {"missing", "readable"}, index : {"readable"}]
                /\ index_rows \in UNION {[1..n -> RowPool] : n \in 0..MaxRows}
             \/ /\ data_dir = [articles |-> "missing", index |-> "missing"]
                /\ index_rows = <<>>

NextCountries ==
    \/ SkipFetch
    \/ AddCountries
    \/ SkipEntities
    \/ AddCountriesMain
    \/ AddCountriesMainReturns
    \/ PrepareJson
    \/ PrepareJsonFails

SpecCountries == InitCountries /\ [][NextCountries]_vars

-----------------------------------------------------------------------------
(* Inputs *)

MaxEntities == 3
MaxWeightMin == 2

\* persons.json, organizations.json and events.json exist; subjects.json and
\* locations.json are missing.

\* Entity ids by type; "10" < "9" as strings although 9 < 10 as numbers.
IdPool(t) == IF t = "person" THEN {9, 10} ELSE {9}

ArticleIds == <<"A", "B">>

\* The sub-lists of s, in the order of s.
RECURSIVE SubLists(_)
SubLists(s) ==
    IF s = <<>> THEN {<<>>}
    ELSE LET rest == SubLists(Tail(s))
         IN rest \cup {<<Head(s)>> \o r : r \in rest}

Entity(i, aids) == [id |-> i, name |-> "name", relatedArticleIds |-> aids]

EntityPool(t) == {Entity(i, aids) : i \in IdPool(t), aids \in SubLists(ArticleIds)}

Files(ps, os, es) ==
    [t \in Types |-> CASE t = "person" -> Present(ps)
                       [] t = "organization" -> Present(os)
                       [] t = "event" -> Present(es)
                       [] OTHER -> Missing]

\* The scenario of two entities used as the worked example of the data contract.
ExampleFiles ==
    Files(<<Entity(1, <<"A", "B">>)>>, <<Entity(9, <<"A", "B", "C">>)>>, <<>>)

\* Files of np, no and ne records.
FilesOfSize(np, no, ne) ==
    {Files(ps, os, es) : ps \in [1..np -> EntityPool("person")],
                         os \in [1..no -> EntityPool("organization")],
                         es \in [1..ne -> EntityPool("event")]}

FilePool(max) ==
    UNION {FilesOfSize(c[1], c[2], c[3]) :
           c \in {d \in (0..max) \X (0..max) \X (0..max) : d[1] + d[2] + d[3] <= max}}

PO == <<"person", "organization">>
OP == <<"organization", "person">>

\* Rule lists in which no type is paired with itself.
ConfigPool == {TYPE_PAIRS, <<PO, OP>>}

-----------------------------------------------------------------------------
(* The run *)

Init ==
    /\ \/ /\ files \in FilePool(MaxEntities)
          /\ type_pairs \in ConfigPool
          /\ weight_min \in 1..MaxWeightMin
       \/ /\ type_pairs = <<PO>>
          /\ weight_min \in {WEIGHT_MIN, WEIGHT_MIN + 1}
          /\ files = ExampleFiles
    /\ pc = "load"
    /\ loaded = <<>>
    /\ article_to_entities = EmptyIndex
    /\ node_info = <<>>
    /\ edge_acc = <<>>
    /\ next_article = 1
    /\ edges = <<>>
    /\ used_ids = {}
    /\ nodes = <<>>
    /\ degree = <<>>
    /\ output = NoOutput
    /\ written = NoFile
    /\ run = 1
    /\ first_output = NoOutput
    /\ PreIdle

\* Lines 72-76, when every file that exists can be read.
Load ==
    /\ pc = "load"
    /\ \A t \in Types : files[t].exists => files[t].readable
    /\ loaded' = [t \in Types |-> load_entities(files, t)]
    /\ pc' = "index"
    /\ UNCHANGED <<type_pairs, weight_min, files, article_to_entities, node_info, edge_acc,
                   next_article, edges, used_ids, nodes, degree, output, written,
                   run, first_output, pre_vars>>

\* Lines 83-90
Index ==
    /\ pc = "index"
    /\ LET st == IndexAll(loaded)
       IN /\ article_to_entities' = st.index
          /\ node_info' = st.info
    /\ pc' = "build_edges"
    /\ UNCHANGED <<type_pairs, weight_min, files, loaded, edge_acc, next_article, edges,
                   used_ids, nodes, degree, output, written, run, first_output, pre_vars>>

\* Lines 97-122: one iteration of the outer loop.
AccumulateArticle ==
    /\ pc = "build_edges"
    /\ next_article <= Len(article_to_entities.keys)
    /\ LET aid == article_to_entities.keys[next_article]
           by_type == article_to_entities.buckets[aid]
       IN \E order \in BucketOrders(by_type) :
              edge_acc' = AccumulateRules(edge_acc, aid, order, type_pairs)
    /\ next_article' = next_article + 1
    /\ UNCHANGED <<type_pairs, weight_min, files, pc, loaded, article_to_entities, node_info,
                   edges, used_ids, nodes, degree, output, written, run, first_output, pre_vars>>

\* The filter applied at any point of the loop, which ends there.
PruneEdgesEarly ==
    /\ pc = "build_edges"
    /\ edges' = Prune(edge_acc, weight_min)
    /\ pc' = "build_nodes"
    /\ UNCHANGED <<type_pairs, weight_min, files, loaded, article_to_entities, node_info,
                   edge_acc, next_article, used_ids, nodes, degree, output, written,
                   run, first_output, pre_vars>>

\* Line 125, once the loop is over.
PruneEdges ==
    /\ pc = "build_edges"
    /\ next_article > Len(article_to_entities.keys)
    /\ edges' = Prune(edge_acc, weight_min)
    /\ pc' = "build_nodes"
    /\ UNCHANGED <<type_pairs, weight_min, files, loaded, article_to_entities, node_info,
                   edge_acc, next_article, used_ids, nodes, degree, output, written,
                   run, first_output, pre_vars>>

\* Lines 128-133: nodes in the iteration order of the set used_ids.
BuildNodes ==
    /\ pc = "build_nodes"
    /\ used_ids' = UsedIds(edges)
    /\ \E order \in Perms(UsedIds(edges)) :
           nodes' = [i \in 1..Len(order) |-> node_info[order[i]]]
    /\ pc' = "degree"
    /\ UNCHANGED <<type_pairs, weight_min, files, loaded, article_to_entities, node_info,
                   edge_acc, next_article, edges, degree, output, written, run, first_output, pre_vars>>

\* Lines 136-141. The members of `nodes` are the dicts of node_info themselves
\* (line 133), so line 141 gives the node_info record of every used id the key
\* 'degree' too.
ComputeDegree ==
    /\ pc = "degree"
    /\ degree' = Degree(used_ids, edges)
    /\ nodes' = [i \in 1..Len(nodes) |-> WithDegree(nodes[i], Degree(used_ids, edges))]
    /\ node_info' = [nid \in DOMAIN node_info |->
                         IF nid \in used_ids
                         THEN WithDegree(node_info[nid], Degree(used_ids, edges))
                         ELSE node_info[nid]]
    /\ pc' = "write"
    /\ UNCHANGED <<type_pairs, weight_min, files, loaded, article_to_entities,
                   edge_acc, next_article, edges, used_ids, output, written, run, first_output, pre_vars>>

\* Lines 143-156
Write ==
    /\ pc = "write"
    /\ output' = <<Output(nodes, edges, weight_min, type_pairs)>>
    /\ written' = <<Output(nodes, edges, weight_min, type_pairs)>>
    /\ pc' = "done"
    /\ UNCHANGED <<type_pairs, weight_min, files, loaded, article_to_entities, node_info,
                   edge_acc, next_article, edges, used_ids, nodes, degree, run, first_output, pre_vars>>

\* The script is started again on the same files with the same configuration.
Rerun ==
    /\ pc = "done"
    /\ run = 1
    /\ run' = 2
    /\ first_output' = output
    /\ pc' = "load"
    /\ loaded' = <<>>
    /\ article_to_entities' = EmptyIndex
    /\ node_info' = <<>>
    /\ edge_acc' = <<>>
    /\ next_article' = 1
    /\ edges' = <<>>
    /\ used_ids' = {}
    /\ nodes' = <<>>
    /\ degree' = <<>>
    /\ output' = NoOutput
    /\ UNCHANGED <<type_pairs, weight_min, files, written, pre_vars>>

\* Lines 72-76, when a file exists and cannot be read: load_entities raises
\* and the script ends there.
LoadFails ==
    /\ pc = "load"
    /\ \E t \in Types : files[t].exists /\ ~files[t].readable
    /\ pc' = "failed"
    /\ UNCHANGED <<type_pairs, weight_min, files, loaded, article_to_entities, node_info,
                   edge_acc, next_article, edges, used_ids, nodes, degree, output, written,
                   run, first_output, pre_vars>>

Next ==
    \/ Load
    \/ Index
    \/ AccumulateArticle
    \/ PruneEdges
    \/ BuildNodes
    \/ ComputeDegree
    \/ Write

Spec == Init /\ [][Next]_vars

NextRerun == Next \/ Rerun

SpecRerun == Init /\ [][NextRerun]_vars

-----------------------------------------------------------------------------
(* Runs over files of any shape: entity objects with keys missing or null,    *)
(* lists with repeated ids, files that cannot be read                         *)

MaxShapeRecords == 2

Full(i, aids, n) ==
    [id |-> i, name |-> "name", relatedArticleIds |-> aids, articleCount |-> n]

ShapePool ==
    {Entity(9, aids) : aids \in {<<>>, <<"A">>, <<"A", "A">>, <<"A", "B">>}}
    \cup {Entity(10, aids) : aids \in {<<>>, <<"A", "B">>}}
    \cup {Full(9, <<"A">>, 5), Full(9, <<"A", "B">>, 0)}
    \cup {[id |-> 9, name |-> "name"],
          [id |-> 9, name |-> "name", nulls |-> {"relatedArticleIds"}],
          [id |-> 9, name |-> "name", relatedArticleIds |-> <<"A", "B">>,
           nulls |-> {"articleCount"}],
          [name |-> "name", relatedArticleIds |-> <<"A", "B">>],
          [id |-> 9, relatedArticleIds |-> <<"A", "B">>]}

FileStates(content) == {Missing, Unreadable, Present(content)}

ShapeFilePool(max) ==
    {[t \in Types |-> CASE t = "person" -> Present(ps)
                        [] t = "organization" -> o
                        [] t = "event" -> e
                        [] OTHER -> Missing] :
        ps \in UNION {[1..n -> ShapePool] : n \in 0..max},
        o \in FileStates(<<Entity(9, <<"A", "B">>)>>),
        e \in FileStates(<<Entity(9, <<"A">>)>>)}

InitShapes ==
    /\ files \in ShapeFilePool(MaxShapeRecords)
    /\ type_pairs = TYPE_PAIRS
    /\ weight_min \in 1..MaxWeightMin
    /\ pc = "load"
    /\ loaded = <<>>
    /\ article_to_entities = EmptyIndex
    /\ node_info = <<>>
    /\ edge_acc = <<>>
    /\ next_article = 1
    /\ edges = <<>>
    /\ used_ids = {}
    /\ nodes = <<>>
    /\ degree = <<>>
    /\ output = NoOutput
    /\ written = NoFile
    /\ run = 1
    /\ first_output = NoOutput
    /\ PreIdle

NextShapes == Next \/ LoadFails

SpecShapes == InitShapes /\ [][NextShapes]_vars

-----------------------------------------------------------------------------
(* Loading and indexing alone, over files in which ids repeat within a type   *)
(* with different names, counts and article lists                             *)

MaxIndexRecords == 2

Named(i, n, aids) == [id |-> i, name |-> n, relatedArticleIds |-> aids]

IndexPool ==
    {Entity(9, <<>>), Entity(9, <<"A">>), Entity(9, <<"A", "B">>),
     Entity(10, <<"B", "A">>), Named(9, "other", <<"B">>), Full(9, <<"A">>, 5)}

IndexFilePool(max) ==
    {Files(ps, os, es) :
        ps \in UNION {[1..n -> IndexPool] : n \in 0..max},
        os \in {<<>>, <<Entity(9, <<"A">>)>>, <<Entity(9, <<"B", "A">>)>>},
        es \in {<<>>, <<Entity(9, <<"B">>)>>}}

InitIndex ==
    /\ type_pairs = TYPE_PAIRS
    /\ weight_min = WEIGHT_MIN
    /\ files \in IndexFilePool(MaxIndexRecords)
    /\ pc = "load"
    /\ loaded = <<>>
    /\ article_to_entities = EmptyIndex
    /\ node_info = <<>>
    /\ edge_acc = <<>>
    /\ next_article = 1
    /\ edges = <<>>
    /\ used_ids = {}
    /\ nodes = <<>>
    /\ degree = <<>>
    /\ output = NoOutput
    /\ written = NoFile
    /\ run = 1
    /\ first_output = NoOutput
    /\ PreIdle

NextIndex == Load \/ Index

SpecIndex == InitIndex /\ [][NextIndex]_vars

-----------------------------------------------------------------------------
(* Properties *)

Distinct(s) == \A i, j \in 1..Len(s) : s[i] = s[j] => i = j

NoSelfPair(pairs) == \A i \in 1..Len(pairs) : pairs[i][1] # pairs[i][2]

\* The accumulation loop has run over every article of the index.
LoopDone ==
    \/ pc \in {"build_nodes", "degree", "write", "done"}
    \/ pc = "build_edges" /\ next_article > Len(article_to_entities.keys)

Pruned == pc \in {"build_nodes", "degree", "write", "done"}

Emitted == written # NoFile

Incident(es, nid) == {i \in 1..Len(es) : es[i].source = nid \/ es[i].target = nid}

WeightMatchesArticleIds(es) ==
    \A i \in 1..Len(es) : es[i].weight = Len(es[i].articleIds) /\ Distinct(es[i].articleIds)

\* C1: after the accumulation loop, under rules that pair no type with itself,
\* every accumulated edge and every emitted edge has weight = len(articleIds)
\* and pairwise distinct articleIds.
C1_WeightEqualsArticleIds ==
    (LoopDone /\ NoSelfPair(type_pairs)) =>
        /\ WeightMatchesArticleIds(edge_acc)
        /\ Emitted => WeightMatchesArticleIds(written[1].edges)

\* C2: one iteration of the outer loop (one article) raises the weight of each
\* edge by at most 1, and an edge whose weight it raises (or that it creates)
\* gets the article id appended exactly once; this whatever rules are configured.
C2_OncePerEdgeAndArticle ==
    [][(pc = "build_edges" /\ next_article' = next_article + 1) =>
          \A i \in 1..Len(edge_acc') :
              LET aid == article_to_entities.keys[next_article]
                  oldWeight == IF i <= Len(edge_acc) THEN edge_acc[i].weight ELSE 0
                  oldIds == IF i <= Len(edge_acc) THEN edge_acc[i].articleIds ELSE <<>>
              IN \/ /\ edge_acc'[i].weight = oldWeight
                    /\ edge_acc'[i].articleIds = oldIds
                 \/ /\ edge_acc'[i].weight = oldWeight + 1
                    /\ edge_acc'[i].articleIds = Append(oldIds, aid)]_vars

\* C3: every accumulated edge has source < target as strings, and no two
\* accumulated edges have the same unordered pair of endpoints.
C3_CanonicalEdgeUniqueness ==
    \A i, j \in 1..Len(edge_acc) :
        /\ NodeLess(edge_acc[i].source, edge_acc[i].target)
        /\ i # j => {edge_acc[i].source, edge_acc[i].target}
                    # {edge_acc[j].source, edge_acc[j].target}

\* An edge whose pair was visited as (n1, n2) with n2 < n1, under rules that
\* visit the same pairs in both directions, next to a second edge.
C3_Witness ==
    /\ LoopDone
    /\ type_pairs = <<PO, OP>>
    /\ Len(edge_acc) >= 2
    /\ \E i \in 1..Len(edge_acc) :
           edge_acc[i].source[1] = "organization" /\ edge_acc[i].type = "person-organization"

\* C4: the pruned list holds exactly the accumulated edges of weight >=
\* weight_min, each record unchanged, and the written snapshot holds that list.
C4_PruneKeepsExactly ==
    Pruned =>
        /\ \A i \in 1..Len(edges) : edges[i].weight >= weight_min
        /\ Range(edges) \subseteq Range(edge_acc)
        /\ \A i \in 1..Len(edge_acc) :
               edge_acc[i].weight >= weight_min => edge_acc[i] \in Range(edges)
        /\ Emitted => written[1].edges = edges

\* A written snapshot for which the prune dropped an edge and kept one of
\* weight exactly weight_min.
C4_Witness ==
    /\ Emitted
    /\ Len(edges) < Len(edge_acc)
    /\ \E i \in 1..Len(edges) : edges[i].weight = weight_min

WeightMax(acc) ==
    IF acc = <<>> THEN 0
    ELSE CHOOSE w \in {acc[i].weight : i \in 1..Len(acc)} :
             \A i \in 1..Len(acc) : acc[i].weight <= w

\* C5: for the edges accumulated from one input and any thresholds w2 > w1, the
\* edges kept with w2 are among the edges kept with w1.
C5_PruneMonotone ==
    LoopDone =>
        \A w1, w2 \in 0..(WeightMax(edge_acc) + 1) :
            w2 > w1 => Range(Prune(edge_acc, w2)) \subseteq Range(Prune(edge_acc, w1))

\* Two thresholds between which the kept edges shrink to a non-empty proper subset.
C5_Witness ==
    /\ LoopDone
    /\ \E w1, w2 \in 0..(WeightMax(edge_acc) + 1) :
           /\ w2 > w1
           /\ Prune(edge_acc, w2) # <<>>
           /\ Range(Prune(edge_acc, w2)) # Range(Prune(edge_acc, w1))

\* C6: in the written snapshot every node is an endpoint of some emitted edge
\* and every endpoint of an emitted edge is a node.
C6_NoIsolatedNodes ==
    Emitted =>
        LET doc == written[1]
            ids == {doc.nodes[i].id : i \in 1..Len(doc.nodes)}
        IN /\ \A nid \in ids : Incident(doc.edges, nid) # {}
           /\ \A i \in 1..Len(doc.edges) :
                  doc.edges[i].source \in ids /\ doc.edges[i].target \in ids

\* A written snapshot with nodes, and an indexed entity that has an accumulated
\* edge but no surviving one and is left out.
C6_Witness ==
    /\ Emitted
    /\ written[1].nodes # <<>>
    /\ \E nid \in DOMAIN node_info :
           /\ Incident(edge_acc, nid) # {}
           /\ \A i \in 1..Len(written[1].nodes) : written[1].nodes[i].id # nid

\* C7: the degree of every emitted node is the number of emitted edges it is
\* the source or the target of.
C7_DegreeCorrect ==
    Emitted =>
        LET doc == written[1]
        IN \A i \in 1..Len(doc.nodes) :
               doc.nodes[i].degree = Cardinality(Incident(doc.edges, doc.nodes[i].id))

\* A written snapshot with an emitted node that lost one of its accumulated
\* edges to the prune.
C7_Witness ==
    /\ Emitted
    /\ \E i \in 1..Len(written[1].nodes) :
           /\ written[1].nodes[i].degree >= 1
           /\ Cardinality(Incident(edge_acc, written[1].nodes[i].id)) > written[1].nodes[i].degree

\* C8: the emitted nodes are in descending order of degree, and nodes of equal
\* degree in ascending order of id.
C8_NodesSortedByDegreeThenId ==
    Emitted =>
        LET ns == written[1].nodes
        IN \A i, j \in 1..Len(ns) :
               i < j => \/ ns[i].degree > ns[j].degree
                        \/ ns[i].degree = ns[j].degree /\ NodeLess(ns[i].id, ns[j].id)

\* C9: a second run over the same files with the same configuration produces
\* the same nodes and edges, in the same order, as the first.
C9_Deterministic ==
    (run = 2 /\ pc = "done") => output = first_output

\* C10: the example (person:1 in A, B; organization:9 in A, B, C; the one rule
\* (person, organization); threshold 2) emits exactly one edge,
\* organization:9 - person:1 of type person-organization, weight 2, articleIds
\* [A, B], and exactly the two nodes, each of degree 1.
C10_Example ==
    (Emitted /\ files = ExampleFiles /\ type_pairs = <<PO>> /\ weight_min = 2) =>
        LET doc == written[1]
        IN /\ doc.edges = << [source |-> NodeId("organization", Str(9)),
                              target |-> NodeId("person", Str(1)),
                              type |-> "person-organization",
                              weight |-> 2,
                              articleIds |-> <<"A", "B">>] >>
           /\ Len(doc.nodes) = 2
           /\ {doc.nodes[i].id : i \in 1..Len(doc.nodes)}
                  = {NodeId("organization", Str(9)), NodeId("person", Str(1))}
           /\ \A i \in 1..Len(doc.nodes) : doc.nodes[i].degree = 1

\* The snapshot of the example with threshold 2 is written.
C10_Witness ==
    Emitted /\ files = ExampleFiles /\ type_pairs = <<PO>> /\ weight_min = 2

\* C11: the example with threshold 3 (person:1 in A, B; organization:9 in
\* A, B, C; the one rule (person, organization)) accumulates one edge, prunes
\* it, emits no node and reports totalNodes = 0 and totalEdges = 0.
C11_ExamplePruned ==
    (files = ExampleFiles /\ type_pairs = <<PO>> /\ weight_min = 3) =>
        /\ LoopDone => Len(edge_acc) = 1
        /\ Pruned => edges = <<>>
        /\ Emitted => /\ written[1].nodes = <<>>
                      /\ written[1].edges = <<>>
                      /\ written[1].meta.totalNodes = 0
                      /\ written[1].meta.totalEdges = 0

\* The snapshot of the example with threshold 3 is written.
C11_Witness ==
    Emitted /\ files = ExampleFiles /\ type_pairs = <<PO>> /\ weight_min = 3

\* C15: when no edge survives the prune the run goes on to its end, and the
\* snapshot it writes has no nodes, no edges and meta.totalEdges = 0.
C15_EmptySnapshotWritten ==
    (Pruned /\ edges = <<>>) =>
        /\ pc # "done" => ENABLED Next
        /\ pc = "done" => /\ Emitted
                          /\ written[1].nodes = <<>>
                          /\ written[1].edges = <<>>
                          /\ written[1].meta.totalEdges = 0

\* A written snapshot of a run that accumulated edges and pruned them all.
C15_Witness ==
    pc = "done" /\ Emitted /\ edges = <<>> /\ edge_acc # <<>>

TypeLabel(r) == r[1] \o "-" \o r[2]

\* C17: every accumulated edge joins two distinct nodes of different types,
\* and its label is that of a configured rule whose two types are the types of
\* its endpoints.
C17_EdgesFollowRules ==
    \A i \in 1..Len(edge_acc) :
        LET e == edge_acc[i]
        IN /\ e.source # e.target
           /\ e.source[1] # e.target[1]
           /\ \E k \in 1..Len(type_pairs) :
                  /\ e.type = TypeLabel(type_pairs[k])
                  /\ {type_pairs[k][1], type_pairs[k][2]} = {e.source[1], e.target[1]}

\* Under the shipped rules, an edge of the rule (person, event) stored with
\* the event as source, next to an edge of another rule.
C17_Witness ==
    /\ LoopDone
    /\ type_pairs = TYPE_PAIRS
    /\ \E i, j \in 1..Len(edge_acc) :
           /\ edge_acc[i].type = "person-event"
           /\ edge_acc[i].source[1] = "event"
           /\ edge_acc[j].type = "person-organization"

Indexed == pc \notin {"load", "index", "failed"}

\* The loaded records of all types, each as (type key, position in its list).
LoadedRecords == UNION {{<<t, i>> : i \in 1..Len(loaded[t])} : t \in Types}

RecordAt(r) == loaded[r[1]][r[2]]

RecordNodeId(r) == NodeId(r[1], EntId(RecordAt(r)))

\* C18 as stated: no two distinct loaded records, of whatever types, have the
\* same node id.
C18_NodeIdsUnique ==
    Indexed =>
        \A r1, r2 \in LoadedRecords : r1 # r2 => RecordNodeId(r1) # RecordNodeId(r2)

\* C18 as amended: records of different types never have the same node id,
\* two records have the same one exactly when they have the same type and the
\* same str(id), and node_info has one key for each (type, str(id)) loaded,
\* holding a record of that type.
C18_NodeIdsUniqueAcrossTypes ==
    Indexed =>
        /\ \A r1, r2 \in LoadedRecords :
               RecordNodeId(r1) = RecordNodeId(r2)
                   <=> (r1[1] = r2[1] /\ EntId(RecordAt(r1)) = EntId(RecordAt(r2)))
        /\ Cardinality(DOMAIN node_info)
               = Cardinality({<<r[1], EntId(RecordAt(r))>> : r \in LoadedRecords})
        /\ \A r \in LoadedRecords :
               /\ RecordNodeId(r) \in DOMAIN node_info
               /\ node_info[RecordNodeId(r)].type = r[1]

\* Indexed records of two types with the same id, and two records of one type
\* with the same id.
C18_Witness ==
    /\ Indexed
    /\ \E r1, r2 \in LoadedRecords :
           r1[1] # r2[1] /\ EntId(RecordAt(r1)) = EntId(RecordAt(r2))
    /\ \E r1, r2 \in LoadedRecords :
           r1 # r2 /\ r1[1] = r2[1] /\ EntId(RecordAt(r1)) = EntId(RecordAt(r2))

\* C20: in the written snapshot meta.totalNodes and meta.totalEdges are the
\* lengths of nodes and edges, and meta.weightMin and meta.typePairs are the
\* threshold and the rules the run was configured with.
C20_MetaConsistent ==
    Emitted =>
        LET doc == written[1]
        IN /\ doc.meta.totalNodes = Len(doc.nodes)
           /\ doc.meta.totalEdges = Len(doc.edges)
           /\ doc.meta.weightMin = weight_min
           /\ doc.meta.typePairs = type_pairs

\* A written snapshot with nodes and edges whose run pruned some edge.
C20_Witness ==
    /\ Emitted
    /\ Len(written[1].nodes) >= 2
    /\ Len(written[1].edges) >= 1
    /\ Len(edge_acc) > Len(written[1].edges)

\* The record has no article list, a null one or an empty one.
NoArticles(ent) == "relatedArticleIds" \notin DOMAIN ent \/ ent.relatedArticleIds = <<>>

\* No loaded record with the node id nid lists an article.
NoArticlesFor(nid) ==
    \A r \in LoadedRecords : RecordNodeId(r) = nid => NoArticles(RecordAt(r))

Endpoints(es) == UsedIds(es)

\* C12: an entity whose relatedArticleIds is empty, absent or null (in every
\* record that carries its id) is in no bucket of the index and is no endpoint
\* of an accumulated or emitted edge, whatever the threshold.
C12_NoArticlesNoEdges ==
    Indexed =>
        \A r \in LoadedRecords :
            NoArticlesFor(RecordNodeId(r)) =>
                /\ \A aid \in DOMAIN article_to_entities.buckets : \A t \in Types :
                       RecordNodeId(r) \notin article_to_entities.buckets[aid][t]
                /\ RecordNodeId(r) \notin Endpoints(edge_acc)
                /\ RecordNodeId(r) \notin Endpoints(edges)
                /\ Emitted => RecordNodeId(r) \notin Endpoints(written[1].edges)

\* A written snapshot with an edge, from files holding an entity with a null
\* article list.
C12_Witness ==
    /\ Emitted
    /\ written[1].edges # <<>>
    /\ \E r \in LoadedRecords :
           /\ IsNull(RecordAt(r), "relatedArticleIds")
           /\ NoArticlesFor(RecordNodeId(r))

\* C13: a run never fails on an entity file, and a type whose file is missing
\* or unreadable is loaded as the empty list.
C13_MissingOrUnreadableIsEmpty ==
    /\ pc # "failed"
    /\ pc \notin {"load", "failed"} =>
           \A t \in Types : ~(files[t].exists /\ files[t].readable) => loaded[t] = <<>>

\* The record fails the shape validation: it has no id or no name.
Malformed(ent) == "id" \notin DOMAIN ent \/ "name" \notin DOMAIN ent

WellFormedNodeIds == {RecordNodeId(r) : r \in {q \in LoadedRecords : ~Malformed(RecordAt(q))}}

\* C14: a malformed record creates no node and no index entry: every key of
\* node_info and every member of a bucket is the node id of a well-formed record.
C14_MalformedSkipped ==
    Indexed =>
        /\ DOMAIN node_info \subseteq WellFormedNodeIds
        /\ \A aid \in DOMAIN article_to_entities.buckets : \A t \in Types :
               article_to_entities.buckets[aid][t] \subseteq WellFormedNodeIds

\* The last loaded record with the node id nid: the one node_info keeps.
LastRecord(nid) ==
    LET rs == {r \in LoadedRecords : RecordNodeId(r) = nid}
    IN RecordAt(CHOOSE r \in rs : \A q \in rs : q[2] <= r[2])

\* C19: the count of a node is the articleCount of its record when the record
\* gives one, and otherwise the number of distinct ids in its relatedArticleIds.
C19_CountIsDistinctArticles ==
    Indexed =>
        \A nid \in DOMAIN node_info :
            LET ent == LastRecord(nid)
            IN node_info[nid].count =
                   IF "articleCount" \in DOMAIN ent THEN ent.articleCount
                   ELSE IF IsNull(ent, "articleCount") THEN 0
                   ELSE Cardinality(Range(RelatedArticleIds(ent)))

\* C16: a preprocessing run that fails because articles.json or index.json
\* cannot be read has written no file when it fails.
C16_NoOutputBeforeMissingSource ==
    (main_pc = "failed" /\ error = "MissingSource") => files_written = {}

\* The rule (t1, t2) pairs the types ta and tb, in one direction or the other.
RuleApplies(rule, ta, tb) ==
    \/ rule[1] = ta /\ rule[2] = tb
    \/ rule[1] = tb /\ rule[2] = ta

\* The label of the first rule, in the order of `rules`, that pairs ta and tb.
FirstRuleLabel(rules, ta, tb) ==
    LET k == CHOOSE i \in 1..Len(rules) :
                 /\ RuleApplies(rules[i], ta, tb)
                 /\ \A j \in 1..(i - 1) : ~RuleApplies(rules[j], ta, tb)
    IN rules[k][1] \o "-" \o rules[k][2]

\* Both node ids are in buckets of the article aid.
CoOccur(aid, n1, n2) ==
    /\ n1 \in article_to_entities.buckets[aid][n1[1]]
    /\ n2 \in article_to_entities.buckets[aid][n2[1]]

\* C21: an iteration of the accumulation loop leaves the type of every edge
\* that exists as it is, and an edge it creates gets the label of the first
\* rule of type_pairs that pairs the types of its endpoints; the article of
\* the iteration is the first of the index in which both endpoints occur.
\* This for every iteration order of the buckets.
C21_TypeFixedAtCreation ==
    [][(pc = "build_edges" /\ next_article' = next_article + 1) =>
          \A i \in 1..Len(edge_acc') :
              IF i <= Len(edge_acc)
              THEN edge_acc'[i].type = edge_acc[i].type
              ELSE LET e == edge_acc'[i]
                   IN /\ e.type = FirstRuleLabel(type_pairs, e.source[1], e.target[1])
                      /\ CoOccur(article_to_entities.keys[next_article], e.source, e.target)
                      /\ \A k \in 1..(next_article - 1) :
                             ~CoOccur(article_to_entities.keys[k], e.source, e.target)]_vars

\* Under the rules (person, organization), (organization, person): an edge
\* created in the first article and visited again, by both rules, in the second.
C21_Witness ==
    /\ LoopDone
    /\ type_pairs = <<PO, OP>>
    /\ Len(article_to_entities.keys) = 2
    /\ \E i \in 1..Len(edge_acc) :
           /\ edge_acc[i].type = "person-organization"
           /\ edge_acc[i].weight = 4

\* The calls of build_article_index made in the order ts of the type keys.
RECURSIVE IndexInOrder(_, _, _)
IndexInOrder(ts, ld, st) ==
    IF ts = <<>> THEN st
    ELSE IndexInOrder(Tail(ts), ld, build_article_index(ld[Head(ts)], Head(ts), st))

\* The lists s can be reordered into.
Reorders(s) == {[i \in 1..Len(s) |-> s[p[i]]] : p \in Perms(1..Len(s))}

\* The loaded lists with the records of each list in any order.
Reloads(ld) ==
    {[t \in Types |-> CASE t = "person" -> p [] t = "organization" -> o [] t = "event" -> e
                         [] t = "subject" -> s [] t = "location" -> l] :
        p \in Reorders(ld["person"]), o \in Reorders(ld["organization"]),
        e \in Reorders(ld["event"]), s \in Reorders(ld["subject"]),
        l \in Reorders(ld["location"])}

\* The article ids some loaded record lists.
ListedArticles == UNION {Range(RelatedArticleIds(RecordAt(r))) : r \in LoadedRecords}

\* The node ids of the records of type t that list the article aid.
Mentioning(aid, t) ==
    {RecordNodeId(r) : r \in {q \in LoadedRecords :
                                 q[1] = t /\ aid \in Range(RelatedArticleIds(RecordAt(q)))}}

\* C22: after the five calls of build_article_index the index has one entry
\* per listed article id, the bucket of article a and type t is the set of node
\* ids of the type-t records that list a, every node id in a bucket is a key of
\* node_info, and the index (the mapping article id -> type -> set) is the same
\* for every order of the calls and every order of the records in each list.
C22_IndexIsInverse ==
    Indexed =>
        /\ DOMAIN article_to_entities.buckets = ListedArticles
        /\ Range(article_to_entities.keys) = ListedArticles
        /\ \A aid \in ListedArticles : \A t \in Types :
               /\ article_to_entities.buckets[aid][t] = Mentioning(aid, t)
               /\ article_to_entities.buckets[aid][t] \subseteq DOMAIN node_info
        /\ (pc = "build_edges" /\ next_article = 1) =>
               \A ts \in Perms(Types) : \A ld \in Reloads(loaded) :
                   IndexInOrder(ts, ld, [index |-> EmptyIndex, info |-> <<>>]).index.buckets
                       = article_to_entities.buckets

\* An index over two articles, from two person records whose lists name them
\* in opposite orders, with a bucket of two node ids and a second type.
C22_Witness ==
    /\ Indexed
    /\ Len(loaded["person"]) = 2
    /\ loaded["person"][1].relatedArticleIds = <<"A", "B">>
    /\ loaded["person"][2].relatedArticleIds = <<"B", "A">>
    /\ article_to_entities.buckets["A"]["organization"] # {}
    /\ Cardinality(article_to_entities.buckets["B"]["person"]) = 2

\* Position of a stage in the script.
StageRank(p) ==
    CASE p = "load" -> 1 [] p = "index" -> 2 [] p = "build_edges" -> 3
      [] p = "build_nodes" -> 4 [] p = "degree" -> 5 [] p = "write" -> 6
      [] p = "done" -> 7 [] OTHER -> 0

\* C23: a run moves from each stage to the next one of load, index,
\* accumulate, prune, assemble (nodes, degree), write, or fails; it leaves the
\* accumulation only when every article of the index has been processed, the
\* pruned list is assigned only by that step, the snapshot is written only by
\* the last step, and a failed run has written no snapshot.
C23_StagesInOrder ==
    [][/\ pc' # pc =>
             \/ pc' = "failed" /\ StageRank(pc) \in 1..6
             \/ StageRank(pc') = StageRank(pc) + 1 /\ StageRank(pc) >= 1
       /\ (pc = "build_edges" /\ pc' # pc) =>
              \/ pc' = "failed"
              \/ next_article > Len(article_to_entities.keys) /\ next_article' = next_article
       /\ pc' = pc => /\ pc = "build_edges"
                      /\ next_article' = next_article + 1
                      /\ edges' = edges
       /\ edges' # edges => pc = "build_edges" /\ pc' = "build_nodes"
       /\ written' # written => pc = "write" /\ pc' = "done"
       /\ pc' = "failed" => written' = NoFile]_vars

\* A finished run in which every stage had work: two articles accumulated, an
\* edge pruned, an edge kept, the snapshot written.
C23_Witness ==
    /\ pc = "done"
    /\ Emitted
    /\ next_article = 3
    /\ edges # <<>>
    /\ Len(edges) < Len(edge_acc)

\* Some loaded record with the node id nid lists the article aid.
Mentions(nid, aid) == nid \in Mentioning(aid, nid[1])

\* The articles of the index, in its order, that mention both node ids.
SharedArticles(n1, n2) ==
    SelectSeq(article_to_entities.keys, LAMBDA aid : Mentions(n1, aid) /\ Mentions(n2, aid))

\* C24: once the loop is over, the articleIds of every accumulated edge are
\* the article ids that both of its endpoints list, each once, in the order in
\* which the article ids entered the index.
C24_ArticleIdsExactInOrder ==
    LoopDone =>
        \A i \in 1..Len(edge_acc) :
            edge_acc[i].articleIds = SharedArticles(edge_acc[i].source, edge_acc[i].target)

\* An index whose first article is B and second is A, an edge with both
\* articles and an edge with one of them.
C24_Witness ==
    /\ LoopDone
    /\ article_to_entities.keys = <<"B", "A">>
    /\ \E i, j \in 1..Len(edge_acc) :
           /\ edge_acc[i].articleIds = <<"B", "A">>
           /\ Len(edge_acc[j].articleIds) = 1

\* C25: under the shipped TYPE_PAIRS one iteration of the loop raises the
\* weight of an edge by at most 1, and the weight of every edge is the number
\* of articles processed so far that mention both of its endpoints.
C25_ShippedRulesVisitOnce ==
    [][(type_pairs = TYPE_PAIRS /\ pc = "build_edges" /\ next_article' = next_article + 1) =>
          \A i \in 1..Len(edge_acc') :
              LET e == edge_acc'[i]
                  oldWeight == IF i <= Len(edge_acc) THEN edge_acc[i].weight ELSE 0
              IN /\ e.weight - oldWeight \in {0, 1}
                 /\ e.weight = Cardinality({k \in 1..next_article :
                                               /\ Mentions(e.source, article_to_entities.keys[k])
                                               /\ Mentions(e.target, article_to_entities.keys[k])})]_vars

\* Under the shipped rules: edges made by two different rules, one of them
\* with two articles.
C25_Witness ==
    /\ LoopDone
    /\ type_pairs = TYPE_PAIRS
    /\ \E i, j \in 1..Len(edge_acc) :
           /\ edge_acc[i].type = "person-organization"
           /\ edge_acc[i].weight = 2
           /\ edge_acc[j].type # "person-organization"

\* C26: the articleIds of an accumulated edge never hold the same id twice,
\* whatever rules are configured, the rules (typeA, typeB), (typeB, typeA)
\* included.
C26_ArticleIdsDistinct ==
    \A i \in 1..Len(edge_acc) : Distinct(edge_acc[i].articleIds)

\* Under the rules (person, organization), (organization, person): an edge
\* visited more often than it has articles.
C26_Witness ==
    /\ type_pairs = <<PO, OP>>
    /\ \E i \in 1..Len(edge_acc) :
           /\ Len(edge_acc[i].articleIds) = 2
           /\ edge_acc[i].weight > Len(edge_acc[i].articleIds)

\* C27: in the written snapshot the degrees of the nodes do not increase from
\* one node to the next, and every node has degree at least 1.
C27_DegreesNonIncreasing ==
    Emitted =>
        LET ns == written[1].nodes
        IN /\ \A i \in 1..(Len(ns) - 1) : ns[i].degree >= ns[i + 1].degree
           /\ \A i \in 1..Len(ns) : ns[i].degree >= 1

\* A written snapshot whose nodes, before the sort, had a node of lower degree
\* ahead of one of higher degree.
C27_Witness ==
    /\ Emitted
    /\ \E i, j \in 1..Len(nodes) : i < j /\ nodes[i].degree < nodes[j].degree

\* The article ids under which the index holds the node id nid.
IndexedUnder(nid) ==
    {aid \in DOMAIN article_to_entities.buckets : nid \in article_to_entities.buckets[aid][nid[1]]}

\* C28: the records of one type with one id are one node: node_info has one
\* entry for the node id, with the label and count of the last of the records,
\* and the index holds the node id under the union of the records' article ids.
C28_DuplicatesCollapse ==
    Indexed =>
        /\ DOMAIN node_info = {RecordNodeId(r) : r \in LoadedRecords}
        /\ \A nid \in DOMAIN node_info :
               /\ node_info[nid].label = Label(LastRecord(nid))
               /\ node_info[nid].count = EntityCount(LastRecord(nid))
               /\ IndexedUnder(nid) =
                      UNION {Range(RelatedArticleIds(RecordAt(r))) :
                                r \in {q \in LoadedRecords : RecordNodeId(q) = nid}}

\* Two person records with the id 9, of different names, counts and article
\* lists, indexed.
C28_Witness ==
    /\ Indexed
    /\ Len(loaded["person"]) = 2
    /\ loaded["person"][1] = Named(9, "other", <<"B">>)
    /\ loaded["person"][2] = Full(9, <<"A">>, 5)
    /\ IndexedUnder(NodeId("person", Str(9))) = {"A", "B"}

\* Position of a step in main().
StepRank(step) ==
    CASE step = "fetch" -> 1 [] step = "add-countries" -> 2 [] step = "entities" -> 3

\* The calls are in the order fetch, add-countries, entities, each at most once.
InStepOrder(cs) == \A i, j \in 1..Len(cs) : i < j => StepRank(cs[i]) < StepRank(cs[j])

\* C29: the steps main() of preprocess_all has called are selected steps, in
\* the order fetch, add-countries, entities and each at most once, whatever
\* --steps lists and in whatever order; a run that ends without an exception
\* has called every selected step, all three when --steps is absent or empty;
\* and once a step has raised no step is called.
C29_StepsInFixedOrder ==
    [][script = "preprocess_all" =>
          /\ InStepOrder(calls')
          /\ Range(calls') \subseteq Range(SelectedSteps(args_steps))
          /\ main_pc' = "done" =>
                 Range(calls') = IF args_steps = <<>> THEN StepNames ELSE Range(args_steps)
          /\ error # "" => calls' = calls
          /\ error' # "" => main_pc' = "failed"]_vars

\* A finished run of --steps entities fetch: fetch was called, then entities.
C29_Witness ==
    /\ main_pc = "done"
    /\ args_steps = <<"entities", "fetch">>
    /\ calls = <<"fetch", "entities">>

\* Some country of the world file contains the point the row's coordinates give.
HasCountry(row) ==
    LET coords == parse_coordinates(CoordStr(row))
    IN /\ coords # <<>>
       /\ \E i \in 1..Len(WorldCountries) : <<coords[2], coords[1]>> \in WorldCountries[i].geometry

\* The keys of the JSON object a row stands for: those with a value and those
\* whose value is null.
RowKeys(row) ==
    (DOMAIN row \ {"nulls"}) \cup (IF "nulls" \in DOMAIN row THEN row.nulls ELSE {})

\* The key k has in `new` what it has in `old`: null, or the same value.
SameValue(old, new, k) ==
    IF IsNull(old, k) THEN IsNull(new, k)
    ELSE /\ ~IsNull(new, k)
         /\ k \in DOMAIN new
         /\ new[k] = old[k]

\* C30: the add-countries pass (step_add_countries of preprocess_all.py and
\* process_index_locations of add_countries.py) keeps the number and order of
\* the rows, writes back every row whose Type is not 'Lieux' as it was, gives
\* every 'Lieux' row a Country (a string, also when the row had none or a
\* null one) and changes no other key of it, null keys staying null, the
\* Country being '' when the coordinates are invalid or in no country, and
\* reports processed + skipped_non_locations = the number of rows.
C30_OnlyCountryOfLocations ==
    [][result' # result =>
          /\ Len(index_rows') = Len(index_rows)
          /\ \A i \in 1..Len(index_rows) :
                 LET old == index_rows[i]
                     new == index_rows'[i]
                 IN IF IsLocation(old)
                    THEN /\ RowKeys(new) = RowKeys(old) \cup {"Country"}
                         /\ \A k \in RowKeys(old) \ {"Country"} : SameValue(old, new, k)
                         /\ "Country" \in DOMAIN new /\ ~IsNull(new, "Country")
                         /\ ~HasCountry(old) => new.Country = ""
                         /\ HasCountry(old) =>
                                \E c \in 1..Len(WorldCountries) : new.Country = WorldCountries[c].name
                    ELSE /\ RowKeys(new) = RowKeys(old)
                         /\ \A k \in RowKeys(old) : SameValue(old, new, k)
          /\ result'[1].processed + result'[1].skipped_non_locations = Len(index_rows)]_vars

\* After the pass: a 'Lieux' row that got its country, and a row of another
\* type that kept the Country it had.
C30_Witness ==
    /\ result # <<>>
    /\ result[1].processed = 1
    /\ result[1].skipped_non_locations = 1
    /\ Len(index_rows) = 2
    /\ IsLocation(index_rows[1])
    /\ "Country" \in DOMAIN index_rows[1] /\ index_rows[1].Country = "Togo"
    /\ ~IsLocation(index_rows[2])
    /\ "Country" \in DOMAIN index_rows[2] /\ index_rows[2].Country = "Old"

====
